---------------------------- MODULE Spec2Model ----------------------------
(***************************************************************************)
(* A model of baryon's src/lib.rs: the packed Color value and the Scene    *)
(* with its node store, entity store and ObjectBuilder.                    *)
(*                                                                         *)
(* Machine numbers.  TLC integers are 32-bit signed, so a u32 is kept as   *)
(* two 16-bit words [hi, lo] (value hi * 2^16 + lo) and an f32 as          *)
(* sign / 24-bit significand / exponent (value (-1)^neg * m * 2^e, with    *)
(* m = 0 or 2^23 <= m < 2^24), with IEEE round-to-nearest-even on every    *)
(* operation.  Subnormals and exponent overflow are outside the values     *)
(* the model feeds in and are not represented.                             *)
(***************************************************************************)
EXTENDS Integers, Sequences, FiniteSets, TLC

VARIABLES
    nodes,       \* Scene.nodes: Vec<Node>; NodeRef(i) resolves to nodes[i + 1]
    world,       \* Scene.world: the spawned entities, EntityRef i at world[i + 1]
    background,  \* Scene.background: Color
    builder,     \* the ObjectBuilder borrowing the Scene, or NoBuilder
    ret,         \* what the last build() returned, or that a call panicked
    entityRefs,  \* the EntityRefs the caller has been handed, in order
    call,        \* "build" once build() has run on the last builder, else "none"
    args,        \* Color: the (red, green, blue, alpha) passed to Color::new
    color,       \* Color: the Color under inspection
    rgba,        \* Color: what red(), green(), blue(), alpha() returned
    cpc          \* Color: "start" | "new" | "named" | "read"

vars == <<nodes, world, background, builder, ret, entityRefs, call, args, color, rgba, cpc>>
sceneVars == <<nodes, world, background, builder, ret, entityRefs, call>>
colorVars == <<args, color, rgba, cpc>>

---------------------------------------------------------------------------
(* u32 *)

Word == 2^16

U32(hi, lo) == [hi |-> hi, lo |-> lo]

\* a u32 from a natural number below 2^31
U32OfNat(n) == U32(n \div Word, n % Word)

RECURSIVE BitOp(_, _, _, _)
\* bitwise combination of two words, n bits deep; or = TRUE gives |, FALSE gives &
BitOp(x, y, n, or) ==
    IF n = 0 THEN 0
    ELSE LET bx == x % 2
             by == y % 2
             b  == IF or THEN (IF bx + by > 0 THEN 1 ELSE 0)
                         ELSE (IF bx + by = 2 THEN 1 ELSE 0)
         IN  b + 2 * BitOp(x \div 2, y \div 2, n - 1, or)

U32Or(x, y) == U32(BitOp(x.hi, y.hi, 16, TRUE), BitOp(x.lo, y.lo, 16, TRUE))

U32And(x, y) == U32(BitOp(x.hi, y.hi, 16, FALSE), BitOp(x.lo, y.lo, 16, FALSE))

\* x << n for 0 <= n < 32: the bits shifted past bit 31 are dropped
U32Shl(x, n) ==
    IF n >= 16
    THEN U32((x.lo * 2^(n - 16)) % Word, 0)
    ELSE U32((x.hi * 2^n + (x.lo \div 2^(16 - n))) % Word, (x.lo * 2^n) % Word)

\* x >> n for 0 <= n < 32
U32Shr(x, n) ==
    IF n >= 16
    THEN U32(0, x.hi \div 2^(n - 16))
    ELSE U32(x.hi \div 2^n, ((x.hi % 2^n) * 2^(16 - n)) + (x.lo \div 2^n))

---------------------------------------------------------------------------
(* f32 *)

Hidden == 2^23     \* the implicit leading bit of a normal f32
Limit  == 2^24     \* one past the largest significand

F32Fin(neg, m, e) == [cls |-> "fin", neg |-> neg, m |-> m, e |-> e]
F32NaN == [cls |-> "nan", neg |-> FALSE, m |-> 0, e |-> 0]
F32Inf(neg) == [cls |-> "inf", neg |-> neg, m |-> 0, e |-> 0]
F32Zero(neg) == F32Fin(neg, 0, 0)

RECURSIVE Normal(_, _, _)
\* the f32 of value m * 2^e for 0 <= m < 2^24: exact, nothing is rounded
Normal(neg, m, e) ==
    IF m = 0 THEN F32Zero(neg)
    ELSE IF m < Hidden THEN Normal(neg, 2 * m, e - 1)
    ELSE F32Fin(neg, m, e)

RECURSIVE BitLen(_)
BitLen(n) == IF n = 0 THEN 0 ELSE 1 + BitLen(n \div 2)

\* the f32 nearest to (H * 2^24 + L) * 2^e, ties to even, for H, L < 2^24
RoundPack(neg, H, L, e) ==
    IF H = 0 THEN Normal(neg, L, e)
    ELSE LET b    == BitLen(H)
             q    == H * 2^(24 - b) + (L \div 2^b)
             r    == L % 2^b
             half == 2^(b - 1)
             up   == r > half \/ (r = half /\ q % 2 = 1)
             q2   == IF up THEN q + 1 ELSE q
         IN  IF q2 = Limit THEN F32Fin(neg, Hidden, e + b + 1)
                           ELSE F32Fin(neg, q2, e + b)

\* `n as f32` for a u32
U32ToF32(u) ==
    RoundPack(FALSE, u.hi \div 256, (u.hi % 256) * Word + u.lo, 0)

F32OfNat(n) == U32ToF32(U32OfNat(n))

F32Neg(x) == [x EXCEPT !.neg = ~x.neg]

\* x == y on f32: NaN equals nothing, -0.0 equals 0.0
F32Eq(x, y) ==
    /\ x.cls # "nan"
    /\ y.cls # "nan"
    /\ \/ (x.cls = "fin" /\ y.cls = "fin" /\ x.m = 0 /\ y.m = 0)
       \/ x = y

\* x < y on magnitudes of finite non-zero values
MagLt(x, y) == x.e < y.e \/ (x.e = y.e /\ x.m < y.m)

\* x < y on f32: false when either is NaN
F32Lt(x, y) ==
    /\ x.cls # "nan"
    /\ y.cls # "nan"
    /\ ~F32Eq(x, y)
    /\ LET xz == x.cls = "fin" /\ x.m = 0
           yz == y.cls = "fin" /\ y.m = 0
       IN  IF xz THEN ~y.neg
           ELSE IF yz THEN x.neg
           ELSE IF x.neg # y.neg THEN x.neg
           ELSE LET lt == IF x.cls = "inf" THEN FALSE
                          ELSE IF y.cls = "inf" THEN TRUE
                          ELSE MagLt(x, y)
                    gt == IF y.cls = "inf" THEN FALSE
                          ELSE IF x.cls = "inf" THEN TRUE
                          ELSE MagLt(y, x)
                IN  IF x.neg THEN gt ELSE lt

\* f32::clamp(min, max): a NaN stays a NaN
F32Clamp(x, min, max) ==
    LET lo == IF F32Lt(x, min) THEN min ELSE x
    IN  IF F32Lt(max, lo) THEN max ELSE lo

RECURSIVE MulAcc(_, _, _, _, _)
\* <<H, L>> with H * 2^24 + L = acc * 2^n + x * (the low n bits of y, as a
\* number): shift-and-add from y's bit n - 1 down, acc held as <<H, L>>
MulAcc(H, L, x, y, n) ==
    IF n = 0 THEN <<H, L>>
    ELSE LET bit == (y \div 2^(n - 1)) % 2
             l2  == 2 * L + bit * x
         IN  MulAcc(2 * H + (l2 \div Limit), l2 % Limit, x, y, n - 1)

\* x * y on f32
F32Mul(x, y) ==
    LET neg == x.neg # y.neg
    IN  IF x.cls = "nan" \/ y.cls = "nan" THEN F32NaN
        ELSE IF x.cls = "inf" \/ y.cls = "inf"
             THEN IF (x.cls = "fin" /\ x.m = 0) \/ (y.cls = "fin" /\ y.m = 0)
                  THEN F32NaN ELSE F32Inf(neg)
        ELSE IF x.m = 0 \/ y.m = 0 THEN F32Zero(neg)
        ELSE LET p == MulAcc(0, 0, x.m, y.m, 24)
             IN  RoundPack(neg, p[1], p[2], x.e + y.e)

RECURSIVE DivBits(_, _, _, _)
\* n steps of long division: <<quotient bits, remainder>>
DivBits(r, d, n, q) ==
    IF n = 0 THEN <<q, r>>
    ELSE IF r >= d THEN DivBits(2 * (r - d), d, n - 1, 2 * q + 1)
                   ELSE DivBits(2 * r, d, n - 1, 2 * q)

\* x / y on f32
F32Div(x, y) ==
    LET neg == x.neg # y.neg
    IN  IF x.cls = "nan" \/ y.cls = "nan" THEN F32NaN
        ELSE IF x.cls = "inf" THEN (IF y.cls = "inf" THEN F32NaN ELSE F32Inf(neg))
        ELSE IF y.cls = "inf" THEN F32Zero(neg)
        ELSE IF y.m = 0 THEN (IF x.m = 0 THEN F32NaN ELSE F32Inf(neg))
        ELSE IF x.m = 0 THEN F32Zero(neg)
        ELSE LET d      == DivBits(x.m, y.m, 26, 0)
                 sticky == IF d[2] = 0 THEN 0 ELSE 1
                 q      == 2 * d[1] + sticky
             IN  RoundPack(neg, q \div Limit, q % Limit, x.e - y.e - 26)

\* `x as u32`: truncates toward zero, saturates, NaN gives 0
F32ToU32(x) ==
    IF x.cls = "nan" THEN U32(0, 0)
    ELSE IF x.neg THEN U32(0, 0)
    ELSE IF x.cls = "inf" THEN U32(Word - 1, Word - 1)
    ELSE IF x.m = 0 THEN U32(0, 0)
    ELSE IF x.e >= 9 THEN U32(Word - 1, Word - 1)
    ELSE IF x.e >= 0 THEN U32(x.m \div 2^(16 - x.e), (x.m % 2^(16 - x.e)) * 2^x.e)
    ELSE IF x.e <= -24 THEN U32(0, 0)
    ELSE U32OfNat(x.m \div 2^(-x.e))

F32_0   == F32Zero(FALSE)
F32_1   == F32OfNat(1)
ChannelMax == 255
F32_255 == F32OfNat(ChannelMax)

---------------------------------------------------------------------------
(* Color *)

BLACK_TRANSPARENT == U32(0, 0)
BLACK_OPAQUE      == U32(65280, 0)
RED               == U32(65280, 255)
GREEN             == U32(65280, 65280)
BLUE              == U32(65535, 0)

\* import with the scale off by one: 256 steps instead of 255
importBy256(value) == F32ToU32(F32Mul(F32Clamp(value, F32_0, F32_1), F32OfNat(256)))

import(value) == F32ToU32(F32Mul(F32Clamp(value, F32_0, F32_1), F32_255))

ColorNew(red, green, blue, alpha) ==
    U32Or(U32Or(U32Or(U32Shl(import(alpha), 24),
                      U32Shl(import(red), 16)),
                U32Shl(import(green), 8)),
          import(blue))

export(self, index) ==
    F32Div(U32ToF32(U32And(U32Shr(self, index * 2^3), U32(0, 255))), F32_255)

ColorRed(self)   == export(self, 2)
ColorGreen(self) == export(self, 1)
ColorBlue(self)  == export(self, 0)
ColorAlpha(self) == export(self, 3)

ColorDefault == BLACK_OPAQUE

---------------------------------------------------------------------------
(* NodeRef, Space, Node *)

\* NodeRef(u32): the wrapped index.  `index as u32` cannot wrap within the
\* bounds of the model, so the index is kept as a natural number.
NodeRef(index) == index
NodeRefDefault == NodeRef(0)

Vector3(x, y, z) == [x |-> x, y |-> y, z |-> z]

SpaceDefault ==
    [ position    |-> Vector3(F32_0, F32_0, F32_0),
      scale       |-> F32_1,
      orientation |-> [s |-> F32_1, v |-> Vector3(F32_0, F32_0, F32_0)] ]

\* the derived PartialEq of mint::Vector3<f32>
Vector3Eq(a, b) == F32Eq(a.x, b.x) /\ F32Eq(a.y, b.y) /\ F32Eq(a.z, b.z)

\* the derived PartialEq of Space
SpaceEq(a, b) ==
    /\ Vector3Eq(a.position, b.position)
    /\ F32Eq(a.scale, b.scale)
    /\ F32Eq(a.orientation.s, b.orientation.s)
    /\ Vector3Eq(a.orientation.v, b.orientation.v)

NodeDefault == [parent |-> NodeRefDefault, local |-> SpaceDefault]

---------------------------------------------------------------------------
(* Scene and ObjectBuilder *)

MaxNodes    == 2   \* no build() is run that would store more nodes
MaxEntities == 2   \* no entity builder is handed out once this many exist
MaxComponents == 1 \* no component() is run that would make a builder hold more

NoBuilder == [kind |-> "None", node |-> NodeDefault, components |-> <<>>]

\* the positions a caller passes to position()
Positions ==
    { Vector3(F32_0, F32_0, F32_0),
      Vector3(F32Zero(TRUE), F32_0, F32_0),
      Vector3(F32OfNat(1), F32OfNat(2), F32OfNat(3)) }

\* the backgrounds the owner sets
Backgrounds == {GREEN}

\* the Color components a caller attaches
Colors == {GREEN}

\* add_node without the identity test: every node is stored
add_nodeAlwaysPush(ns, node) == <<Append(ns, node), NodeRef(Len(ns))>>

\* add_node taking the index after the push instead of before it
add_nodeIndexAfterPush(ns, node) ==
    IF SpaceEq(node.local, SpaceDefault)
    THEN <<ns, node.parent>>
    ELSE <<Append(ns, node), NodeRef(Len(ns) + 1)>>

\* add_node comparing the transform bit for bit instead of with ==
add_nodeBitwise(ns, node) ==
    IF node.local = SpaceDefault
    THEN <<ns, node.parent>>
    ELSE <<Append(ns, node), NodeRef(Len(ns))>>

\* Scene::add_node: <<the node store afterwards, the NodeRef returned>>
add_node(ns, node) ==
    IF SpaceEq(node.local, SpaceDefault)
    THEN <<ns, node.parent>>
    ELSE LET index == Len(ns)
         IN  <<Append(ns, node), NodeRef(index)>>

\* Scene::entity: the builder it returns
SceneEntity == [kind |-> "Typed", node |-> NodeDefault, components |-> <<>>]

\* the node-only factory: the builder it returns
SceneNode == [kind |-> "Untyped", node |-> NodeDefault, components |-> <<>>]

\* position() that writes the scale as well
ObjectBuilderPositionAndScale(b, position) ==
    [b EXCEPT !.node.local.position = position, !.node.local.scale = position.x]

\* ObjectBuilder::position
ObjectBuilderPosition(b, position) == [b EXCEPT !.node.local.position = position]

Component(type, value) == [type |-> type, value |-> value]

\* what the entity store does with a second component of a type a bundle
\* already holds.  The store is a collaborator whose code is not part of this
\* repository, and lib.rs does nothing about the case itself, so each call
\* may meet any of these: the new value replaces the old one; both are kept;
\* add() panics; spawn() panics.
Policies == {"replace", "append", "panic in add", "panic in spawn"}

HasType(kind, type) == \E i \in 1..Len(kind) : kind[i].type = type

\* the bundle holds two components of one type
DuplicateType(bundle) ==
    \E i, j \in 1..Len(bundle) : i < j /\ bundle[i].type = bundle[j].type

\* the bundle with every component of c's type replaced by c
Replaced(kind, c) ==
    [i \in 1..Len(kind) |-> IF kind[i].type = c.type THEN c ELSE kind[i]]

\* hecs::EntityBuilder::add under a policy: whether it panicked, and the
\* accumulator afterwards
EntityBuilderAdd(kind, c, policy) ==
    IF ~HasType(kind, c.type)
    THEN [panicked |-> FALSE, kind |-> Append(kind, c)]
    ELSE IF policy = "replace"
    THEN [panicked |-> FALSE, kind |-> Replaced(kind, c)]
    ELSE IF policy = "panic in add"
    THEN [panicked |-> TRUE, kind |-> kind]
    ELSE [panicked |-> FALSE, kind |-> Append(kind, c)]

\* ObjectBuilder<hecs::EntityBuilder>::component: whether it panicked, and
\* the builder it returns when it did not
ObjectBuilderComponent(b, c, policy) ==
    LET added == EntityBuilderAdd(b.components, c, policy)
    IN  [panicked |-> added.panicked,
         builder  |-> [b EXCEPT !.components = added.kind]]

\* hecs::World::spawn under a policy: whether it panicked, the world
\* afterwards and the EntityRef issued
WorldSpawn(w, built, policy) ==
    IF policy = "panic in spawn" /\ DuplicateType(built)
    THEN [panicked |-> TRUE, world |-> w, ref |-> 0]
    ELSE [panicked |-> FALSE, world |-> Append(w, built), ref |-> Len(w)]

\* ObjectBuilder<()>::build: <<nodes afterwards, the NodeRef returned>>
UntypedBuild(ns, b) == add_node(ns, b.node)

\* build() that spawns the caller's components without the NodeRef
TypedBuildNoNodeRef(ns, w, b, policy) ==
    LET added   == add_node(ns, b.node)
        spawned == WorldSpawn(w, b.components, policy)
    IN  <<added[1], spawned.world, spawned.ref, added[2], ~spawned.panicked>>

\* build() that commits the node a second time
TypedBuildCommitsTwice(ns, w, b, policy) ==
    LET first   == add_node(ns, b.node)
        added   == add_node(first[1], b.node)
        node    == added[2]
        built   == EntityBuilderAdd(b.components, Component("NodeRef", node), policy)
        spawned == WorldSpawn(w, built.kind, policy)
    IN  IF built.panicked
        THEN <<added[1], w, 0, node, FALSE>>
        ELSE <<added[1], spawned.world, spawned.ref, node, ~spawned.panicked>>

\* ObjectBuilder<hecs::EntityBuilder>::build: <<nodes afterwards, world
\* afterwards, the EntityRef returned, the NodeRef committed, whether build()
\* returned>>.  The node is committed before the entity store is touched, so
\* it stays committed when add() or spawn() panics.
TypedBuild(ns, w, b, policy) ==
    LET added   == add_node(ns, b.node)
        node    == added[2]
        built   == EntityBuilderAdd(b.components, Component("NodeRef", node), policy)
        spawned == WorldSpawn(w, built.kind, policy)
    IN  IF built.panicked
        THEN <<added[1], w, 0, node, FALSE>>
        ELSE <<added[1], spawned.world, spawned.ref, node, ~spawned.panicked>>

NoReturn == [kind |-> "None", ref |-> 0, node |-> 0]

\* the call panicked in the entity store and returned nothing
Fatal == [kind |-> "Fatal", ref |-> 0, node |-> 0]

SceneInit ==
    /\ nodes = <<>>
    /\ world = <<>>
    /\ background = ColorDefault
    /\ builder = NoBuilder
    /\ ret = NoReturn
    /\ entityRefs = <<>>
    /\ call = "none"

ColorIdle ==
    /\ args = <<F32_0, F32_0, F32_0, F32_0>>
    /\ color = ColorDefault
    /\ rgba = <<F32_0, F32_0, F32_0, F32_0>>
    /\ cpc = "start"

Init == SceneInit /\ ColorIdle

\* scene.entity()
Entity ==
    /\ builder = NoBuilder
    /\ Len(world) < MaxEntities
    /\ builder' = SceneEntity
    /\ call' = "none"
    /\ UNCHANGED <<nodes, world, background, ret, entityRefs, colorVars>>

\* the node-only factory
NodeOnly ==
    /\ builder = NoBuilder
    /\ builder' = SceneNode
    /\ call' = "none"
    /\ UNCHANGED <<nodes, world, background, ret, entityRefs, colorVars>>

\* builder.position(p)
Position ==
    /\ builder # NoBuilder
    /\ \E p \in Positions : builder' = ObjectBuilderPosition(builder, p)
    /\ UNCHANGED <<nodes, world, background, ret, entityRefs, call, colorVars>>

\* builder.component(c) with a Color.  component() takes the builder by
\* value, so a panic inside it ends the builder.
ComponentColor ==
    /\ builder.kind = "Typed"
    /\ \E c \in Colors, policy \in Policies :
          LET out == ObjectBuilderComponent(builder, Component("Color", c), policy)
          IN  /\ Len(out.builder.components) <= MaxComponents
              /\ IF out.panicked
                 THEN builder' = NoBuilder /\ ret' = Fatal
                 ELSE builder' = out.builder /\ ret' = ret
    /\ UNCHANGED <<nodes, world, background, entityRefs, call, colorVars>>

\* builder.component(r) with a NodeRef the caller holds: NodeRef::default()
ComponentNodeRef ==
    /\ builder.kind = "Typed"
    /\ \E r \in {NodeRefDefault}, policy \in Policies :
          LET out == ObjectBuilderComponent(builder, Component("NodeRef", r), policy)
          IN  /\ Len(out.builder.components) <= MaxComponents
              /\ IF out.panicked
                 THEN builder' = NoBuilder /\ ret' = Fatal
                 ELSE builder' = out.builder /\ ret' = ret
    /\ UNCHANGED <<nodes, world, background, entityRefs, call, colorVars>>

\* builder.build() on ObjectBuilder<()>
BuildNode ==
    /\ builder.kind = "Untyped"
    /\ LET out == UntypedBuild(nodes, builder)
       IN  /\ Len(out[1]) <= MaxNodes
           /\ nodes' = out[1]
           /\ ret' = [kind |-> "Node", ref |-> out[2], node |-> out[2]]
    /\ builder' = NoBuilder
    /\ call' = "build"
    /\ UNCHANGED <<world, background, entityRefs, colorVars>>

\* builder.build() on ObjectBuilder<hecs::EntityBuilder>.  build() takes the
\* builder by value: the builder is gone whether build() returns or panics,
\* and the Scene keeps what build() did to it before the panic.
BuildEntity ==
    /\ builder.kind = "Typed"
    /\ \E policy \in Policies :
          LET out == TypedBuild(nodes, world, builder, policy)
          IN  /\ Len(out[1]) <= MaxNodes
              /\ nodes' = out[1]
              /\ world' = out[2]
              /\ IF out[5]
                 THEN /\ ret' = [kind |-> "Entity", ref |-> out[3], node |-> out[4]]
                      /\ entityRefs' = Append(entityRefs, out[3])
                 ELSE /\ ret' = Fatal
                      /\ entityRefs' = entityRefs
    /\ builder' = NoBuilder
    /\ call' = "build"
    /\ UNCHANGED <<background, colorVars>>

\* the builder goes out of scope without build(): the borrow of the Scene
\* ends and nothing else happens
Drop ==
    /\ builder # NoBuilder
    /\ builder' = NoBuilder
    /\ UNCHANGED <<nodes, world, background, ret, entityRefs, call, colorVars>>

\* scene.background = c, possible while no builder borrows the Scene
SetBackground ==
    /\ builder = NoBuilder
    /\ \E c \in Backgrounds : background' = c
    /\ UNCHANGED <<nodes, world, builder, ret, entityRefs, call, colorVars>>

Next ==
    \/ Entity
    \/ NodeOnly
    \/ Position
    \/ ComponentColor
    \/ ComponentNodeRef
    \/ BuildNode
    \/ BuildEntity
    \/ Drop
    \/ SetBackground

Spec == Init /\ [][Next]_vars

---------------------------------------------------------------------------
(* Color under test: Color::new on chosen channels, the named constants,   *)
(* and the four accessors                                                  *)

\* the 8-bit step k / 255 as an f32
Quant(k) == F32Div(F32OfNat(k), F32_255)
Steps == [k \in 0..ChannelMax |-> Quant(k)]

F32_2    == F32OfNat(2)
F32_Half == Normal(FALSE, 1, -1)

Clamped == <<F32_2, F32Neg(F32_1), F32_Half, F32_Half>>

\* the channel tuples handed to Color::new: every 8-bit step on each channel
\* against the extremes on the others, mixed steps, and values outside [0,1]
ColorInputs ==
    LET ends == {Steps[0], Steps[ChannelMax]}
    IN  UNION { { <<Steps[k], x, x, x>>, <<x, Steps[k], x, x>>,
                  <<x, x, Steps[k], x>>, <<x, x, x, Steps[k]>> } :
                <<k, x>> \in (0..ChannelMax) \X ends }
        \union { <<Steps[51], Steps[102], Steps[153], Steps[204]>>,
                 <<Steps[1], Steps[127], Steps[128], Steps[254]>>,
                 Clamped,
                 <<F32NaN, F32Inf(FALSE), F32Zero(TRUE), F32Inf(TRUE)>> }

NamedColors == {BLACK_TRANSPARENT, BLACK_OPAQUE, RED, GREEN, BLUE}

\* Color::new(red, green, blue, alpha)
NewColor ==
    /\ cpc = "start"
    /\ \E a \in ColorInputs :
          /\ args' = a
          /\ color' = ColorNew(a[1], a[2], a[3], a[4])
    /\ cpc' = "new"
    /\ UNCHANGED <<rgba, sceneVars>>

\* one of the associated constants
NamedColor ==
    /\ cpc = "start"
    /\ \E c \in NamedColors : color' = c
    /\ cpc' = "named"
    /\ UNCHANGED <<args, rgba, sceneVars>>

\* color.red(), color.green(), color.blue(), color.alpha()
ReadColor ==
    /\ cpc \in {"new", "named"}
    /\ rgba' = <<ColorRed(color), ColorGreen(color), ColorBlue(color), ColorAlpha(color)>>
    /\ cpc' = IF cpc = "new" THEN "newRead" ELSE "namedRead"
    /\ UNCHANGED <<args, color, sceneVars>>

ColorNext == NewColor \/ NamedColor \/ ReadColor

ColorSpec == Init /\ [][ColorNext]_vars

---------------------------------------------------------------------------
(* Properties of the Scene *)

\* this step is a build() call: it consumes the builder, and returns or panics
IsBuild == builder # NoBuilder /\ call' = "build"

\* build() returned
Returned == ret'.kind # "Fatal"

\* the caller gave the builder no NodeRef and no two components of one type
InContract(b) ==
    /\ ~DuplicateType(b.components)
    /\ ~HasType(b.components, "NodeRef")

IsIdentity(node) == SpaceEq(node.local, SpaceDefault)

Position123 == Vector3(F32OfNat(1), F32OfNat(2), F32OfNat(3))

\* the values of the NodeRef components of a bundle, in order
NodeRefsOf(bundle) ==
    LET at == {i \in 1..Len(bundle) : bundle[i].type = "NodeRef"}
    IN  [n \in 1..Cardinality(at) |->
            bundle[CHOOSE i \in at : Cardinality({j \in at : j < i}) = n - 1].value]

\* C1  Dedup law: a build() whose node has a local transform equal to the
\* identity commits nothing: the node store is unchanged and the reference
\* committed is the node's parent reference.
C1_DedupLaw ==
    [][ (IsBuild /\ IsIdentity(builder.node)) =>
            /\ nodes' = nodes
            /\ Returned => ret'.node = builder.node.parent
            /\ (builder.kind = "Untyped" => ret'.ref = builder.node.parent) ]_vars

\* an identity build has returned the parent reference with two nodes stored
C1_Witness ==
    /\ Len(nodes) = 2
    /\ ret.kind = "Node"
    /\ ret.ref = NodeRefDefault

\* C2  Append-only growth: a build() of a non-identity node makes the store
\* one longer, returns the index the node was stored at (the length before),
\* stores the builder's node there, and no step changes a node already stored.
C2_AppendOnly ==
    [][ /\ (IsBuild /\ ~IsIdentity(builder.node)) =>
              /\ Len(nodes') = Len(nodes) + 1
              /\ Returned => ret'.node = NodeRef(Len(nodes))
              /\ nodes'[Len(nodes) + 1] = builder.node
        /\ Len(nodes') >= Len(nodes)
        /\ \A i \in 1..Len(nodes) : nodes'[i] = nodes[i] ]_vars

\* a node-only build with position (1,2,3) has stored that position second
C2_Witness ==
    /\ ret.kind = "Node"
    /\ ret.ref = 1
    /\ Len(nodes) = 2
    /\ nodes[ret.ref + 1].local.position = Position123
    /\ nodes[ret.ref + 1].parent = NodeRefDefault

\* build() is called on an entity builder: it returns or panics
TypedBuildCalled == builder.kind = "Typed" /\ IsBuild

\* the bundle spawned by this step holds exactly one NodeRef, the one
\* committed for the builder's node, next to the caller's other components
SpawnsWithCommittedRef ==
    LET spawned  == world'[Len(world')]
        expected == IF IsIdentity(builder.node)
                    THEN builder.node.parent
                    ELSE NodeRef(Len(nodes))
    IN  /\ Len(world') = Len(world) + 1
        /\ NodeRefsOf(spawned) = <<expected>>
        /\ ret'.node = expected
        /\ \A i \in 1..Len(builder.components) :
              builder.components[i].type # "NodeRef" =>
                 \E j \in 1..Len(spawned) :
                    /\ spawned[j].type = builder.components[i].type
                    /\ spawned[j].value = builder.components[i].value

\* C3 as stated: every entity build() spawns a bundle holding exactly one
\* NodeRef, the one committed in that build, also when the caller had added a
\* NodeRef of their own through component().
C3_AsStated ==
    [][ TypedBuildCalled => (ret'.kind = "Entity" /\ SpawnsWithCommittedRef) ]_vars

\* C3 amended: every entity build() whose caller added no NodeRef of their own
\* and no two components of one type returns, and the bundle it spawns holds
\* exactly one NodeRef, the one committed in that build, whether or not a node
\* was stored for it; and the entity store changes in entity build() steps
\* only.
C3_EntityCarriesNodeRef ==
    [][ /\ (TypedBuildCalled /\ InContract(builder)) =>
               (ret'.kind = "Entity" /\ SpawnsWithCommittedRef)
        /\ world' # world => TypedBuildCalled ]_vars

\* an entity built with a Color holds it next to the committed reference to
\* the second node
C3_Witness ==
    /\ ret.kind = "Entity"
    /\ ret.node = 1
    /\ Len(world[ret.ref + 1]) = 2
    /\ world[ret.ref + 1][1].type = "Color"
    /\ world[ret.ref + 1][2].type = "NodeRef"
    /\ world[ret.ref + 1][2].value = NodeRef(1)

\* C4  No build() that appends a node returns the default NodeRef: the
\* default reference stands for the root and for no stored node.
C4_DefaultRefIsNoNode ==
    [][ (IsBuild /\ Len(nodes') > Len(nodes)) => ret'.node # NodeRefDefault ]_vars

\* C5  No node in the store has a local transform equal to the identity.
C5_NoIdentityStored ==
    \A i \in 1..Len(nodes) : ~IsIdentity(nodes[i])

\* two nodes are stored and the last entity build stored none
C5_Witness ==
    /\ Len(nodes) = 2
    /\ Len(world) = 2
    /\ ret.kind = "Entity"
    /\ ret.node = NodeRefDefault

RECURSIVE Walk(_, _)
\* the references of the nodes passed on the way from `ref` up the parent
\* links until the root reference, <<-1>> appended when `fuel` steps do not
\* reach it
Walk(ref, fuel) ==
    IF ref = NodeRefDefault THEN <<>>
    ELSE IF fuel = 0 \/ ref >= Len(nodes) THEN <<-1>>
    ELSE <<ref>> \o Walk(nodes[ref + 1].parent, fuel - 1)

Visited(ref) == LET w == Walk(ref, Len(nodes)) IN {w[i] : i \in 1..Len(w)}

\* C6  From every stored node's reference the parent links lead to the root
\* reference in finitely many steps, passing the node itself, and no stored
\* node is its own parent.
C6_ParentChainsReachRoot ==
    \A i \in 0..(Len(nodes) - 1) :
        /\ -1 \notin Visited(NodeRef(i))
        /\ i \in Visited(NodeRef(i))
        /\ nodes[i + 1].parent # NodeRef(i)

\* C7 as stated: every entity build() spawns exactly one entity, stores no
\* node for an identity transform and one otherwise, and returns an EntityRef
\* no earlier build returned.
C7_AsStated ==
    [][ TypedBuildCalled =>
            /\ Len(world') = Len(world) + 1
            /\ Len(nodes') = Len(nodes) + (IF IsIdentity(builder.node) THEN 0 ELSE 1)
            /\ ret'.kind = "Entity"
            /\ entityRefs' = Append(entityRefs, ret'.ref)
            /\ \A i \in 1..Len(entityRefs) : entityRefs[i] # ret'.ref ]_vars

\* C7 amended: every entity build() stores no node for an identity transform
\* and one otherwise; when it returns it has spawned exactly one entity and
\* returns an EntityRef no earlier build returned; when it panics it has
\* spawned none and returned nothing; and it returns whenever the caller gave
\* the builder no NodeRef and no two components of one type.
C7_OneEntityPerBuild ==
    [][ TypedBuildCalled =>
            /\ Len(nodes') = Len(nodes) + (IF IsIdentity(builder.node) THEN 0 ELSE 1)
            /\ ret'.kind = "Entity" =>
                  /\ Len(world') = Len(world) + 1
                  /\ \A i \in 1..Len(world) : world'[i] = world[i]
                  /\ entityRefs' = Append(entityRefs, ret'.ref)
                  /\ \A i \in 1..Len(entityRefs) : entityRefs[i] # ret'.ref
            /\ ret'.kind # "Entity" =>
                  /\ world' = world
                  /\ entityRefs' = entityRefs
            /\ InContract(builder) => ret'.kind = "Entity" ]_vars

\* two entities spawned, one of them with a node of its own
C7_Witness ==
    /\ Len(world) = 2
    /\ Len(entityRefs) = 2
    /\ entityRefs[1] # entityRefs[2]
    /\ Len(nodes) = 1
    /\ ret.kind = "Entity"

\* C9  Until build() runs the builder leaves the Scene alone: creating it,
\* position() and component() change neither store nor the background, nor
\* does a component() that panics or dropping the builder unbuilt; position()
\* changes only the position of the builder's node; and the stores change in
\* build() steps only.
C9_BuilderFrame ==
    [][ /\ builder' # NoBuilder =>
              /\ nodes' = nodes
              /\ world' = world
              /\ background' = background
        /\ (builder # NoBuilder /\ ~IsBuild) =>
              /\ nodes' = nodes
              /\ world' = world
              /\ background' = background
        /\ (builder # NoBuilder /\ builder' # NoBuilder) =>
              /\ builder'.kind = builder.kind
              /\ builder'.node.parent = builder.node.parent
              /\ builder'.node.local.scale = builder.node.local.scale
              /\ builder'.node.local.orientation = builder.node.local.orientation
              /\ (builder'.node # builder.node =>
                     /\ builder'.components = builder.components
                     /\ builder'.node.local.position \in Positions)
        /\ (nodes' # nodes \/ world' # world) => IsBuild ]_vars

\* an entity builder carrying position (1,2,3) and a Color over an empty Scene
C9_Witness ==
    /\ builder.kind = "Typed"
    /\ builder.node.local.position = Position123
    /\ Len(builder.components) = 1
    /\ nodes = <<>>
    /\ world = <<>>
    /\ background = GREEN

---------------------------------------------------------------------------
(* Properties of Color *)

\* byte `index` of a u32, index 0 the least significant
Byte(u, index) ==
    IF index = 0 THEN u.lo % 256
    ELSE IF index = 1 THEN u.lo \div 256
    ELSE IF index = 2 THEN u.hi % 256
    ELSE u.hi \div 256

\* the byte that holds argument i of Color::new: red 2, green 1, blue 0, alpha 3
ByteOf(i) == IF i = 4 THEN 3 ELSE 3 - i

Pure(r, g, b) == <<F32OfNat(r), F32OfNat(g), F32OfNat(b), F32_1>>

\* C8  RED, GREEN and BLUE are the packings of the pure colours and read
\* back as (1,0,0), (0,1,0) and (0,0,1) with alpha 1.
C8_NamedColorsArePure ==
    cpc = "namedRead" =>
        /\ (color = RED =>
               /\ color = ColorNew(F32_1, F32_0, F32_0, F32_1)
               /\ rgba = Pure(1, 0, 0))
        /\ (color = GREEN =>
               /\ color = ColorNew(F32_0, F32_1, F32_0, F32_1)
               /\ rgba = Pure(0, 1, 0))
        /\ (color = BLUE =>
               /\ color = ColorNew(F32_0, F32_0, F32_1, F32_1)
               /\ rgba = Pure(0, 0, 1))

\* every channel that is an 8-bit step k / 255 is packed as the byte k at
\* its place and read back exactly; a channel above 1 reads back 1, one
\* below 0 reads back 0
RoundTrip ==
    \A i \in 1..4 :
        /\ \A k \in 0..ChannelMax :
              args[i] = Steps[k] =>
                 /\ Byte(color, ByteOf(i)) = k
                 /\ rgba[i] = args[i]
        /\ F32Lt(F32_1, args[i]) => rgba[i] = F32_1
        /\ F32Lt(args[i], F32_0) => rgba[i] = F32_0

\* C10 as stated: the round trip, and Color::new(2.0, -1.0, 0.5, 0.5) reads
\* back as (1.0, 0.0, 0.5, 0.5).
C10_RoundTripAsStated ==
    cpc = "newRead" =>
        /\ RoundTrip
        /\ (args = Clamped => rgba = <<F32_1, F32_0, F32_Half, F32_Half>>)

\* C10 amended: the round trip, and Color::new(2.0, -1.0, 0.5, 0.5) reads
\* back as (1.0, 0.0, 127/255, 127/255): 0.5 * 255 = 127.5 is truncated to
\* the byte 127.
C10_RoundTrip ==
    cpc = "newRead" =>
        /\ RoundTrip
        /\ (args = Clamped =>
               /\ color = U32(127 * 256 + 255, 127)
               /\ rgba = <<F32_1, F32_0, Steps[127], Steps[127]>>)

\* mixed 8-bit steps have been packed and read back unchanged
C10_Witness ==
    /\ cpc = "newRead"
    /\ args = <<Steps[51], Steps[102], Steps[153], Steps[204]>>
    /\ color = U32(204 * 256 + 51, 102 * 256 + 153)
    /\ rgba = args

=============================================================================
